---- MODULE Spec2Model ----
(***************************************************************************)
(* raivault-server: the request router and work cache of src/index.js.    *)
(*                                                                         *)
(* One behaviour is one run of the node process: module load (Startup),    *)
(* then up to MaxReq HTTP requests whose handlers interleave at their      *)
(* outbound calls, and the recommended-representatives refresher.          *)
(***************************************************************************)
EXTENDS Integers, Sequences, FiniteSets, TLC

\* Bounds of the model.
MaxReq == 2            \* HTTP requests of any kind received in one run (Spec)
MaxWorkReq == 3        \* work_generate requests received in one run (SpecWork)
MaxRepReq == 3         \* representatives_online requests in one run (SpecReps)
MaxTime == 6           \* minutes the clock runs (SpecReps)
ClaimedCapacity == 2   \* the capacity the cache claims are stated for

\* A field that is absent from the request (reads as undefined, falsy).
Absent == "undefined"

\* Inputs the requests are drawn from.
Works == {"1234", "AB12"}
Hashes == {"H1", "online-representatives", "recommended-reps"}
ActionInputs ==
  {"work_generate", "representatives_online", "account_history", "blocks_info",
   "pending", "account_info", "delete_account", Absent}
Nodes == {Absent, "abcd", "http://n"}
Bodies ==
  {[action |-> "work_generate", hash |-> h] : h \in Hashes \cup {Absent}}
    \cup {[action |-> a, hash |-> Absent] : a \in ActionInputs \ {"work_generate"}}
\* What an upstream (node, work node, override target, DPoW) can answer.
ProxyBodies ==
  {[work |-> w, representatives |-> FALSE, enriched |-> FALSE] : w \in Works \cup {Absent}}
    \cup {[work |-> Absent, representatives |-> TRUE, enriched |-> FALSE]}

VARIABLES
  proc,           \* "loading" | "running" | "crashed": the node process
  useRedisCache,  \* configuration, read once at load (line 12)
  useDPoW,        \* configuration, read once at load (line 10)
  workCache,      \* the module-level array of {hash, work} (line 22)
  req,            \* the requests: inputs, handler locals, position, spies
  refresher,      \* "idle" | "fetching": getRecommendedReps started by the timer
  now,            \* minutes since the module was loaded
  cacheClient     \* the redis keyspace behind cacheClient, and its last putCache call

vars == <<proc, useRedisCache, useDPoW, workCache, req, refresher, now, cacheClient>>

Max(a, b) == IF a > b THEN a ELSE b
Reqs == 1 .. Max(MaxReq, Max(MaxWorkReq, MaxRepReq))

\* ------------------------------------------------------------------------
\* Configuration and constants of the module

\* line 15 is commented out: the identifier is not declared anywhere, and
\* evaluating it throws a ReferenceError.
memoryCacheLength == "undeclared"

\* line 13 is commented out as well: the redis branch of the module load
\* evaluates an undeclared identifier.
redisCacheUrl == "undeclared"

\* line 14 is commented out too: the default expiry of the redis putCache is
\* an undeclared identifier.
redisCacheTime == "undeclared"

allowedActions ==
  {"account_history", "account_info", "accounts_frontiers", "accounts_balances",
   "accounts_pending", "block", "blocks", "block_count", "blocks_info",
   "delegators_count", "pending", "process", "representatives_online",
   "validate_account_number", "work_generate"}

repCacheKey == "online-representatives"
recommendedKey == "recommended-reps"

NoTime == 0      \* putCache called without its third argument
RepTtl == 300    \* 5 * 60
RecommendedTtl == 2700  \* 45 * 60

ReferenceErrorText == "ReferenceError: memoryCacheLength is not defined"
UpstreamErrorText == "Error: upstream"

\* ------------------------------------------------------------------------
\* The cache functions of the in-memory branch (lines 171-179)

Null == "null"

FirstIndex(cache, hash) ==
  CHOOSE i \in 1 .. Len(cache) :
    /\ cache[i].hash = hash
    /\ \A j \in 1 .. (i - 1) : cache[j].hash # hash

getCache(cache, hash) ==
  IF \E i \in 1 .. Len(cache) : cache[i].hash = hash
  THEN cache[FirstIndex(cache, hash)].work
  ELSE Null

\* The prune test placed before the push: the call throws with nothing stored.
putCache_TestFirst(cache, hash, work, time) ==
  IF time # NoTime
  THEN [cache |-> cache, threw |-> FALSE]
  ELSE [cache |-> cache, threw |-> TRUE]

\* The result is the array after the call and whether the call threw.
putCache(cache, hash, work, time) ==
  IF time # NoTime
  THEN [cache |-> cache, threw |-> FALSE]
  ELSE LET pushed == Append(cache, [hash |-> hash, work |-> work])
       IN IF memoryCacheLength = "undeclared"
          THEN [cache |-> pushed, threw |-> TRUE]
          ELSE IF Len(pushed) >= memoryCacheLength
               THEN [cache |-> Tail(pushed), threw |-> FALSE]
               ELSE [cache |-> pushed, threw |-> FALSE]

\* ------------------------------------------------------------------------
\* The cache functions of the redis branch (lines 166-169), as functions of
\* the keyspace behind cacheClient. An entry is a value and the minute at
\* which redis expires it.

NoEntry == [value |-> Null, expires |-> 0]

\* line 166: cacheClient.get at minute t
redisGetCache(store, hash, t) ==
  IF store[hash].value # Null /\ t < store[hash].expires
  THEN store[hash].value
  ELSE Null

\* lines 167-169: cacheClient.set(hash, work, 'EX', time || redisCacheTime) at
\* minute t. Without a time the argument list evaluates redisCacheTime, and
\* the call throws before set is called.
redisPutCache(store, hash, work, time, t) ==
  IF time # NoTime
  THEN [store |-> [store EXCEPT ![hash] = [value |-> work, expires |-> t + (time \div 60)]],
        threw |-> FALSE]
  ELSE IF redisCacheTime = "undeclared"
       THEN [store |-> store, threw |-> TRUE]
       ELSE [store |-> [store EXCEPT ![hash] =
                          [value |-> work, expires |-> t + (redisCacheTime \div 60)]],
             threw |-> FALSE]

\* ------------------------------------------------------------------------
\* JSON text of an upstream answer, and its parse

JSONstringify(v) ==
  "{" \o (IF v.work # Absent THEN "work:" \o v.work ELSE "")
      \o (IF v.representatives THEN "representatives" ELSE "")
      \o (IF v.enriched THEN "timestamps" ELSE "") \o "}"

JsonValues ==
  {[work |-> w, representatives |-> r, enriched |-> e] :
     w \in Works \cup {Absent}, r \in BOOLEAN, e \in BOOLEAN}

\* What the directory service can answer: an array of accounts.
DirectoryLists == {<<>>, <<"nano_1">>}

JSONstringifyList(list) == IF Len(list) = 0 THEN "[]" ELSE "[" \o list[1] \o "]"

\* A text that is no JSON text makes JSON.parse throw a SyntaxError; a text
\* of digits parses to a number.
JSONparse(text) ==
  IF \E v \in JsonValues : JSONstringify(v) = text
  THEN [threw |-> FALSE, kind |-> "object",
        value |-> CHOOSE v \in JsonValues : JSONstringify(v) = text]
  ELSE IF \E l \in DirectoryLists : JSONstringifyList(l) = text
       THEN [threw |-> FALSE, kind |-> "array",
             value |-> CHOOSE l \in DirectoryLists : JSONstringifyList(l) = text]
  ELSE IF text = "1234"
       THEN [threw |-> FALSE, kind |-> "number", value |-> text]
       ELSE [threw |-> TRUE, kind |-> "SyntaxError", value |-> text]

\* ------------------------------------------------------------------------
\* The conditions of the POST /api/node-api handler (lines 44-150)

Falsy(x) == x = Absent \/ x = Null \/ x = ""

IsAllowed_Named(action) == ~Falsy(action)

\* line 62
IsAllowed(action) == ~Falsy(action) /\ action \in allowedActions

\* line 63
NotAllowedText(action) == "Action " \o action \o " not allowed"

\* line 73
HasOverride(node) == ~Falsy(node) /\ Len(node) > 4

IsWorkLookup_AnyNode(action, nodeOverride) == action = "work_generate"

\* line 79
IsWorkLookup(action, nodeOverride) == action = "work_generate" /\ ~nodeOverride

HashMissing_Never(hash) == FALSE

\* line 80
HashMissing(hash) == Falsy(hash)

IsHit_Never(cached) == FALSE

\* lines 83 and 92
IsHit(cached) == ~Falsy(cached) /\ Len(cached) > 0

\* line 90
IsRepLookup(action, nodeOverride) == action = "representatives_online" /\ ~nodeOverride

NodeUrl_PrimaryForReps(workRequest, representativeRequest, nodeOverride) ==
  IF workRequest /\ ~nodeOverride
  THEN "work"
  ELSE IF nodeOverride THEN "override" ELSE "primary"

\* lines 69, 74, 99-101
NodeUrl(workRequest, representativeRequest, nodeOverride) ==
  IF (workRequest \/ representativeRequest) /\ ~nodeOverride
  THEN "work"
  ELSE IF nodeOverride THEN "override" ELSE "primary"

GoesToDPoW_WorkOnly(workRequest, dpow) == workRequest

\* line 104
GoesToDPoW(workRequest, dpow) == workRequest /\ dpow

\* lines 128-129
CachesWork(proxyRes, workRequest, nodeOverride) ==
  ~nodeOverride /\ workRequest /\ ~Falsy(proxyRes.work)

\* lines 128, 132
CachesReps(proxyRes, representativeRequest, nodeOverride) ==
  ~nodeOverride /\ representativeRequest /\ proxyRes.representatives

\* The timestamp transforms of ./timestamps tag the answer they are given.
mapTimestamps(proxyRes) == [proxyRes EXCEPT !.enriched = TRUE]

Enrich_HistoryOnly(action, proxyRes) ==
  IF action = "account_history" THEN mapTimestamps(proxyRes) ELSE proxyRes

\* lines 138-146
Enrich(action, proxyRes) ==
  IF action \in {"account_history", "blocks_info", "pending"}
  THEN mapTimestamps(proxyRes)
  ELSE proxyRes

\* ------------------------------------------------------------------------
\* Requests

\* A request slot before its request arrives. calls, reads and writes record
\* the outbound calls, getCache calls and putCache calls made for the request,
\* answer what its outbound call returned, wroteAt the minute of its putCache
\* call, resp the responses sent on its res object.
NoAnswer == [work |-> Absent, representatives |-> FALSE, enriched |-> FALSE, ok |-> FALSE]
Answered(body) == [work |-> body.work, representatives |-> body.representatives,
                   enriched |-> body.enriched, ok |-> TRUE]
Idle ==
  [route |-> "none", pc |-> "idle", action |-> Absent, hash |-> Absent,
   node |-> Absent, workRequest |-> FALSE, representativeRequest |-> FALSE,
   nodeOverride |-> FALSE, nodeUrl |-> "none",
   calls |-> <<>>, reads |-> <<>>, writes |-> <<>>, answer |-> NoAnswer,
   wroteAt |-> -1, resp |-> <<>>]

Response(status, line, body) == [status |-> status, line |-> line, body |-> body]

Responded(q, status, line, body) ==
  [q EXCEPT !.pc = "done", !.resp = Append(@, Response(status, line, body))]

\* Requests arrive in the order of their slots.
NextSlot(r) ==
  /\ req[r].pc = "idle"
  /\ \A s \in Reqs : s < r => req[s].pc # "idle"

\* The handler of POST /api/node-api from its entry to its first outbound
\* call or response (lines 44-126): the in-memory getCache is synchronous,
\* so this part runs without interruption.
NodeApiEntry(body, node, cache, dpow) ==
  LET q0 == [Idle EXCEPT !.route = "node-api", !.action = body.action,
                         !.hash = body.hash, !.node = node]
      nodeOverride == HasOverride(node)
      q1 == [q0 EXCEPT !.nodeOverride = nodeOverride]
      workLookup == IsWorkLookup(body.action, nodeOverride)
      repLookup == IsRepLookup(body.action, nodeOverride)
      cachedWork == getCache(cache, body.hash)
      cachedValue == getCache(cache, repCacheKey)
      parsed == JSONparse(cachedValue)
  IN IF ~IsAllowed(body.action)
     THEN Responded(q0, 500, 63, [error |-> NotAllowedText(body.action)])
     ELSE IF workLookup /\ HashMissing(body.hash)
     THEN Responded(q1, 500, 80, [error |-> "Requires valid hash to perform work"])
     ELSE IF workLookup /\ IsHit(cachedWork)
     THEN Responded([q1 EXCEPT !.reads = <<body.hash>>], 200, 84, [work |-> cachedWork])
     ELSE IF repLookup /\ IsHit(cachedValue)
     THEN IF parsed.threw
          THEN \* the async handler rejects: nothing is sent
               [q1 EXCEPT !.reads = <<repCacheKey>>, !.pc = "rejected"]
          ELSE Responded([q1 EXCEPT !.reads = <<repCacheKey>>], 200, 93,
                         [kind |-> parsed.kind, value |-> parsed.value])
     ELSE LET url == NodeUrl(workLookup, repLookup, nodeOverride)
              q2 == [q1 EXCEPT !.workRequest = workLookup,
                               !.representativeRequest = repLookup,
                               !.nodeUrl = url,
                               !.reads = IF workLookup THEN <<body.hash>>
                                         ELSE IF repLookup THEN <<repCacheKey>>
                                         ELSE <<>>]
          IN IF GoesToDPoW(workLookup, dpow)
             THEN [q2 EXCEPT !.pc = "dpow", !.calls = <<"dpow">>]
             ELSE [q2 EXCEPT !.pc = "upstream", !.calls = <<url>>]

PostNodeApi(r, body, node) ==
  /\ proc = "running"
  /\ NextSlot(r)
  /\ req' = [req EXCEPT ![r] = NodeApiEntry(body, node, workCache, useDPoW)]
  /\ UNCHANGED <<cacheClient, now, proc, useRedisCache, useDPoW, workCache, refresher>>

\* The .then callback of the proxied call (lines 127-148) and the .catch that
\* follows it (line 149): an exception thrown in the callback, putCache's
\* included, is answered by the .catch.
ProxyThen(q, proxyRes, cache) ==
  LET cw == CachesWork(proxyRes, q.workRequest, q.nodeOverride)
      cr == CachesReps(proxyRes, q.representativeRequest, q.nodeOverride)
      put1 == IF cw THEN putCache(cache, q.hash, proxyRes.work, NoTime)
              ELSE [cache |-> cache, threw |-> FALSE]
      put2 == IF cr THEN putCache(put1.cache, repCacheKey, JSONstringify(proxyRes), RepTtl)
              ELSE [cache |-> put1.cache, threw |-> FALSE]
  IN IF put1.threw
     THEN [cache |-> put1.cache,
           q |-> Responded([q EXCEPT !.writes = <<q.hash>>], 500, 149,
                           [string |-> ReferenceErrorText])]
     ELSE IF put2.threw
     THEN [cache |-> put2.cache,
           q |-> Responded([q EXCEPT !.writes = (IF cw THEN <<q.hash>> ELSE <<>>)
                                                 \o <<repCacheKey>>],
                           500, 149, [string |-> ReferenceErrorText])]
     ELSE [cache |-> put2.cache,
           q |-> Responded([q EXCEPT !.writes = (IF cw THEN <<q.hash>> ELSE <<>>)
                                                 \o (IF cr THEN <<repCacheKey>> ELSE <<>>)],
                           200, 147, Enrich(q.action, proxyRes))]

ProxyOk(r, proxyRes) ==
  /\ req[r].pc = "upstream"
  /\ LET out == ProxyThen(req[r], proxyRes, workCache)
     IN /\ workCache' = out.cache
        /\ req' = [req EXCEPT ![r] =
                     [out.q EXCEPT !.answer = Answered(proxyRes),
                                   !.wroteAt = IF out.q.writes # <<>> THEN now ELSE -1]]
  /\ UNCHANGED <<cacheClient, now, proc, useRedisCache, useDPoW, refresher>>

\* The failed call issued once more instead of answered.
ProxyFail_Retry(r) ==
  /\ req[r].pc = "upstream"
  /\ Len(req[r].calls) < 2
  /\ req' = [req EXCEPT ![r] = [@ EXCEPT !.calls = Append(@, req[r].nodeUrl)]]
  /\ UNCHANGED <<cacheClient, now, proc, useRedisCache, useDPoW, workCache, refresher>>

\* line 149 after a failed call
ProxyFail(r) ==
  /\ req[r].pc = "upstream"
  /\ req' = [req EXCEPT ![r] = Responded(@, 500, 149, [string |-> UpstreamErrorText])]
  /\ UNCHANGED <<cacheClient, now, proc, useRedisCache, useDPoW, workCache, refresher>>

\* The .then callback of the DPoW call (lines 116-121) and its .catch (line 122)
DpowThen(q, dpowRes, cache) ==
  LET put == IF ~Falsy(dpowRes.work)
             THEN putCache(cache, q.hash, dpowRes.work, NoTime)
             ELSE [cache |-> cache, threw |-> FALSE]
  IN IF put.threw
     THEN [cache |-> put.cache,
           q |-> Responded([q EXCEPT !.writes = <<q.hash>>], 500, 122,
                           [string |-> ReferenceErrorText])]
     ELSE [cache |-> put.cache,
           q |-> Responded([q EXCEPT !.writes = IF ~Falsy(dpowRes.work)
                                                 THEN <<q.hash>> ELSE <<>>],
                           200, 120, dpowRes)]

DpowOk(r, dpowRes) ==
  /\ req[r].pc = "dpow"
  /\ LET out == DpowThen(req[r], dpowRes, workCache)
     IN /\ workCache' = out.cache
        /\ req' = [req EXCEPT ![r] =
                     [out.q EXCEPT !.answer = Answered(dpowRes),
                                   !.wroteAt = IF out.q.writes # <<>> THEN now ELSE -1]]
  /\ UNCHANGED <<cacheClient, now, proc, useRedisCache, useDPoW, refresher>>

DpowFail(r) ==
  /\ req[r].pc = "dpow"
  /\ req' = [req EXCEPT ![r] = Responded(@, 500, 122, [string |-> UpstreamErrorText])]
  /\ UNCHANGED <<cacheClient, now, proc, useRedisCache, useDPoW, workCache, refresher>>

\* ------------------------------------------------------------------------
\* GET /api/recommended-representatives (lines 34-41) and getRecommendedReps
\* (lines 182-192)

RecommendedEntry(cache) ==
  LET q0 == [Idle EXCEPT !.route = "recommended", !.reads = <<recommendedKey>>]
      reps == getCache(cache, recommendedKey)
      parsed == JSONparse(reps)
  IN IF ~Falsy(reps)
     THEN IF parsed.threw
          THEN [q0 EXCEPT !.pc = "rejected"]
          ELSE Responded(q0, 200, 37, [kind |-> parsed.kind, value |-> parsed.value])
     ELSE [q0 EXCEPT !.pc = "directory", !.calls = <<"directory">>]

GetRecommended(r) ==
  /\ proc = "running"
  /\ NextSlot(r)
  /\ req' = [req EXCEPT ![r] = RecommendedEntry(workCache)]
  /\ UNCHANGED <<cacheClient, now, proc, useRedisCache, useDPoW, workCache, refresher>>

\* The .then of getRecommendedReps (lines 187-191): the cache after it
StoreRecommended(cache, list) ==
  putCache(cache, recommendedKey, JSONstringifyList(list), RecommendedTtl)

\* The handler resumes after its await with the list and returns it (line 39):
\* the value goes to the framework, which ignores it; res is not used.
DirectoryOk(r, list) ==
  /\ req[r].pc = "directory"
  /\ LET put == StoreRecommended(workCache, list)
     IN /\ workCache' = put.cache
        /\ req' = [req EXCEPT ![r] = [@ EXCEPT !.pc = IF put.threw THEN "rejected" ELSE "returned",
                                              !.writes = <<recommendedKey>>]]
  /\ UNCHANGED <<cacheClient, now, proc, useRedisCache, useDPoW, refresher>>

\* The fetch fails: the await throws, the handler's promise rejects.
DirectoryFail(r) ==
  /\ req[r].pc = "directory"
  /\ req' = [req EXCEPT ![r] = [@ EXCEPT !.pc = "rejected"]]
  /\ UNCHANGED <<cacheClient, now, proc, useRedisCache, useDPoW, workCache, refresher>>

\* ------------------------------------------------------------------------
\* Module load (lines 155-200) and the refresher (lines 194-200)

\* With USE_REDIS set, line 160 evaluates the undeclared redisCacheUrl: the
\* load throws and the process ends. Otherwise the in-memory cache functions
\* are installed and pollRecommended starts the first fetch.
Startup ==
  /\ proc = "loading"
  /\ IF useRedisCache /\ redisCacheUrl = "undeclared"
     THEN proc' = "crashed" /\ UNCHANGED refresher
     ELSE proc' = "running" /\ refresher' = "fetching"
  /\ UNCHANGED <<cacheClient, now, useRedisCache, useDPoW, workCache, req>>

\* setInterval(getRecommendedReps, 15 * 60 * 1000)
RefresherTick ==
  /\ proc = "running"
  /\ refresher = "idle"
  /\ refresher' = "fetching"
  /\ UNCHANGED <<cacheClient, now, proc, useRedisCache, useDPoW, workCache, req>>

RefresherOk(list) ==
  /\ refresher = "fetching"
  /\ workCache' = StoreRecommended(workCache, list).cache
  /\ refresher' = "idle"
  /\ UNCHANGED <<cacheClient, now, proc, useRedisCache, useDPoW, req>>

RefresherFail ==
  /\ refresher = "fetching"
  /\ refresher' = "idle"
  /\ UNCHANGED <<cacheClient, now, proc, useRedisCache, useDPoW, workCache, req>>

\* ------------------------------------------------------------------------
\* The redis cache functions on their own. The branch that assigns them is
\* not reached by a load of the module (Startup); what follows is what they
\* do, as written, when called the way lines 118, 130, 133 and 188 call
\* putCache.

RedisKeys == {"H1", "H2", repCacheKey, recommendedKey}

PutCalls ==
  {[hash |-> h, work |-> w, time |-> NoTime] : h \in {"H1", "H2"}, w \in Works}
    \cup {[hash |-> repCacheKey,
           work |-> JSONstringify([work |-> Absent, representatives |-> TRUE, enriched |-> FALSE]),
           time |-> RepTtl]}
    \cup {[hash |-> recommendedKey, work |-> JSONstringifyList(l), time |-> RecommendedTtl] :
            l \in DirectoryLists}

NoPut == [hash |-> Absent, work |-> Absent, time |-> NoTime, threw |-> FALSE]

RedisPut(call) ==
  /\ LET out == redisPutCache(cacheClient.store, call.hash, call.work, call.time, now)
     IN cacheClient' = [store |-> out.store,
                        put |-> [hash |-> call.hash, work |-> call.work,
                                 time |-> call.time, threw |-> out.threw]]
  /\ UNCHANGED <<now, proc, useRedisCache, useDPoW, workCache, req, refresher>>

\* ------------------------------------------------------------------------
\* The specification

Init ==
  /\ proc = "loading"
  /\ useRedisCache \in BOOLEAN
  /\ useDPoW \in BOOLEAN
  /\ workCache = <<>>
  /\ req = [r \in Reqs |-> Idle]
  /\ refresher = "idle"
  /\ now = 0
  /\ cacheClient = [store |-> [k \in RedisKeys |-> NoEntry], put |-> NoPut]

Next ==
  \/ Startup
  \/ \E r \in 1 .. MaxReq, body \in Bodies, node \in Nodes : PostNodeApi(r, body, node)
  \/ \E r \in Reqs, proxyRes \in ProxyBodies : ProxyOk(r, proxyRes)
  \/ \E r \in Reqs : ProxyFail(r)
  \/ \E r \in Reqs, dpowRes \in ProxyBodies : DpowOk(r, dpowRes)
  \/ \E r \in Reqs : DpowFail(r)
  \/ \E r \in 1 .. MaxReq : GetRecommended(r)
  \/ \E r \in Reqs, list \in DirectoryLists : DirectoryOk(r, list)
  \/ \E r \in Reqs : DirectoryFail(r)
  \/ RefresherTick
  \/ \E list \in DirectoryLists : RefresherOk(list)
  \/ RefresherFail

Spec == Init /\ [][Next]_vars

\* The work cache under load: non-overridden work_generate requests only.
WorkBodies == {[action |-> "work_generate", hash |-> h] : h \in {"H1", "H2"}}

NextWork ==
  \/ Startup
  \/ \E r \in 1 .. MaxWorkReq, body \in WorkBodies : PostNodeApi(r, body, Absent)
  \/ \E r \in Reqs, proxyRes \in ProxyBodies : ProxyOk(r, proxyRes)
  \/ \E r \in Reqs : ProxyFail(r)
  \/ \E r \in Reqs, dpowRes \in ProxyBodies : DpowOk(r, dpowRes)
  \/ \E r \in Reqs : DpowFail(r)

SpecWork == Init /\ [][NextWork]_vars

\* Time passes.
Tick ==
  /\ now < MaxTime
  /\ now' = now + 1
  /\ UNCHANGED <<cacheClient, proc, useRedisCache, useDPoW, workCache, req, refresher>>

\* The representatives cache over time: representatives_online requests only.
RepBody == [action |-> "representatives_online", hash |-> Absent]

NextReps ==
  \/ Startup
  \/ \E r \in 1 .. MaxRepReq, node \in {Absent, "http://n"} : PostNodeApi(r, RepBody, node)
  \/ \E r \in Reqs, proxyRes \in ProxyBodies : ProxyOk(r, proxyRes)
  \/ \E r \in Reqs : ProxyFail(r)
  \/ Tick

SpecReps == Init /\ [][NextReps]_vars

NextRedis ==
  \/ \E call \in PutCalls : RedisPut(call)
  \/ Tick

InitRedis == Init /\ useRedisCache /\ ~useDPoW

SpecRedis == InitRedis /\ [][NextRedis]_vars

TypeOK ==
  /\ proc \in {"loading", "running", "crashed"}
  /\ Len(workCache) <= Cardinality(Reqs)
  /\ \A r \in Reqs : Len(req[r].resp) <= 1

\* ------------------------------------------------------------------------
\* What the claims speak of

\* The allowlist as the specification lists it (section 4.1).
ListedActions ==
  {"account_history", "account_info", "accounts_frontiers", "accounts_balances",
   "accounts_pending", "block", "blocks", "block_count", "blocks_info",
   "delegators_count", "pending", "process", "representatives_online",
   "validate_account_number", "work_generate"}

\* The request carries an override target: a node parameter longer than 4.
CarriesOverride(q) == q.node # Absent /\ Len(q.node) > 4

\* The request that arrives in this step, if any.
Arrives(r) == req[r].pc = "idle" /\ req'[r].pc # "idle"

\* The values cached under a hash, oldest first.
IndicesOf(cache, hash) == {i \in 1 .. Len(cache) : cache[i].hash = hash}
OldestIndex(cache, hash) ==
  CHOOSE i \in IndicesOf(cache, hash) : \A j \in IndicesOf(cache, hash) : i <= j

\* C1: a node-api request whose action is missing or not one of the 15 listed
\* names is answered with an error naming the action, and no cache read, no
\* cache write and no outbound call is made for it.
C1_UnlistedActionRejected ==
  \A r \in Reqs :
    (req[r].route = "node-api" /\ req[r].action \notin ListedActions) =>
      /\ req[r].pc = "done"
      /\ req[r].resp = <<Response(500, 63,
                          [error |-> "Action " \o req[r].action \o " not allowed"])>>
      /\ req[r].calls = <<>>
      /\ req[r].reads = <<>>
      /\ req[r].writes = <<>>

C1_Witness ==
  \E r, s \in Reqs :
    /\ req[r].route = "node-api" /\ req[r].action = "delete_account"
    /\ req[s].route = "node-api" /\ req[s].action = Absent
    /\ req[r].pc = "done" /\ req[s].pc = "done"

\* C2: a request that carries an override target never reads and never
\* writes the cache, whatever its action: no getCache and no putCache call is
\* made for it, and the steps of its handling leave workCache as it was.
C2_OverrideBypassesCache ==
  [][\A r \in Reqs :
       (req'[r].route = "node-api" /\ CarriesOverride(req'[r])) =>
         /\ req'[r].reads = <<>>
         /\ req'[r].writes = <<>>
         /\ (req'[r] # req[r] => workCache' = workCache)]_vars

C2_Witness ==
  \E r, s \in Reqs :
    /\ req[r].route = "node-api" /\ CarriesOverride(req[r])
    /\ req[r].action = "work_generate" /\ req[r].pc = "done"
    /\ req[r].answer.ok /\ req[r].answer.work \in Works
    /\ req[r].calls = <<"override">>
    /\ req[s].route = "node-api" /\ CarriesOverride(req[s])
    /\ req[s].action = "representatives_online" /\ req[s].pc = "done"
    /\ req[s].answer.ok /\ req[s].answer.representatives

\* C3: a non-overridden work_generate request for a hash that has a work
\* value in the cache is answered {work: the cached value} (the oldest one
\* cached for the hash) and causes no outbound call and no cache change.
C3_CachedWorkServed ==
  [][\A r \in Reqs :
       (/\ Arrives(r)
        /\ req'[r].route = "node-api"
        /\ req'[r].action = "work_generate"
        /\ ~CarriesOverride(req'[r])
        /\ req'[r].hash # Absent
        /\ IndicesOf(workCache, req'[r].hash) # {}) =>
         /\ req'[r].pc = "done"
         /\ req'[r].resp =
              <<Response(200, 84,
                 [work |-> workCache[OldestIndex(workCache, req'[r].hash)].work])>>
         /\ req'[r].calls = <<>>
         /\ workCache' = workCache]_vars

C3_Witness ==
  \E r \in Reqs :
    /\ req[r].action = "work_generate" /\ req[r].pc = "done"
    /\ req[r].calls = <<>>
    /\ Len(req[r].resp) = 1 /\ req[r].resp[1].line = 84
    /\ req[r].resp[1].body.work \in Works

\* The requests whose handling wrote a work value under a hash.
WritersOf(hash) ==
  {t \in Reqs : req[t].workRequest /\ req[t].hash = hash /\ req[t].writes # <<>>}

\* C4: when a non-overridden work_generate request for H has missed the
\* cache and its outbound call answers with a work value W (no other value
\* having been inserted for H meanwhile), the cache holds H -> W afterwards;
\* and a later work_generate request for H, with that request the only writer
\* of H, is answered {work: W} from the cache with no outbound call.
C4_WriteBackThenHit ==
  [][\A r \in Reqs :
       /\ (/\ req[r].pc \in {"upstream", "dpow"} /\ req'[r].pc = "done"
           /\ req[r].workRequest
           /\ req'[r].answer.ok /\ req'[r].answer.work \in Works
           /\ IndicesOf(workCache, req[r].hash) = {}) =>
            /\ IndicesOf(workCache', req[r].hash) # {}
            /\ workCache'[OldestIndex(workCache', req[r].hash)].work = req'[r].answer.work
       /\ (/\ Arrives(r)
           /\ req'[r].action = "work_generate" /\ ~CarriesOverride(req'[r])
           /\ \E t \in Reqs : WritersOf(req'[r].hash) = {t}) =>
            LET t == CHOOSE t \in Reqs : WritersOf(req'[r].hash) = {t}
            IN /\ req'[r].resp = <<Response(200, 84, [work |-> req[t].answer.work])>>
               /\ req'[r].calls = <<>>]_vars

C4_Witness ==
  \E r, t \in Reqs :
    /\ r # t
    /\ req[t].workRequest /\ req[t].answer.ok /\ req[t].answer.work \in Works
    /\ req[t].calls = <<"work">>
    /\ req[r].action = "work_generate" /\ req[r].hash = req[t].hash
    /\ Len(req[r].resp) = 1 /\ req[r].resp[1].line = 84
    /\ req[r].resp[1].body.work = req[t].answer.work
    /\ req[r].calls = <<>>

\* C5: the in-process work cache holds at most its capacity of entries.
C5_CacheWithinCapacity == Len(workCache) <= ClaimedCapacity

\* C6: a put without TTL evicts only when the cache already holds capacity
\* entries, and then exactly the oldest entry, the others and the new one
\* keeping their order; a put into a cache with fewer entries evicts nothing.
C6_FifoEviction ==
  [][workCache' # workCache =>
       LET new == workCache'[Len(workCache')]
       IN IF Len(workCache) >= ClaimedCapacity
          THEN workCache' = Append(Tail(workCache), new)
          ELSE workCache' = Append(workCache, new)]_vars

FreshRepWriters ==
  {t \in Reqs : /\ req[t].representativeRequest
                /\ req[t].answer.ok /\ req[t].answer.representatives
                /\ req[t].wroteAt >= 0
                /\ (now - req[t].wroteAt) * 60 < RepTtl}

C9_RecommendedAnswered ==
  \A r \in Reqs :
    (req[r].route = "recommended" /\ req[r].pc \in {"done", "returned"}) =>
      Len(req[r].resp) = 1

\* C10 as claimed: a work_generate request without a hash, with or without
\* an override target, is answered with the validation error and causes no
\* cache read, no cache write and no outbound call.
C10_MissingHashRejected ==
  \A r \in Reqs :
    (/\ req[r].route = "node-api" /\ req[r].action = "work_generate"
     /\ req[r].hash = Absent) =>
      /\ req[r].resp =
           <<Response(500, 80, [error |-> "Requires valid hash to perform work"])>>
      /\ req[r].calls = <<>>
      /\ req[r].reads = <<>>
      /\ req[r].writes = <<>>

\* C10 as amended: the same of the requests that carry no override target.
C10_MissingHashRejectedNoOverride ==
  \A r \in Reqs :
    (/\ req[r].route = "node-api" /\ req[r].action = "work_generate"
     /\ req[r].hash = Absent /\ ~CarriesOverride(req[r])) =>
      /\ req[r].pc = "done"
      /\ req[r].resp =
           <<Response(500, 80, [error |-> "Requires valid hash to perform work"])>>
      /\ req[r].calls = <<>>
      /\ req[r].reads = <<>>
      /\ req[r].writes = <<>>

C10_Witness ==
  \E r, s \in Reqs :
    /\ req[r].action = "work_generate" /\ req[r].hash = Absent
    /\ req[r].node = Absent /\ req[r].pc = "done"
    /\ req[s].action = "work_generate" /\ req[s].hash = Absent
    /\ req[s].node = "abcd" /\ req[s].pc = "done"


\* The outbound call of request r fails in this step.
FailsNow(r) ==
  \/ /\ req[r].pc \in {"upstream", "dpow"}
     /\ req'[r].pc = "done"
     /\ ~req'[r].answer.ok
  \/ /\ req[r].pc = "directory"
     /\ req'[r].pc = "rejected"
     /\ req'[r].writes = <<>>

\* C11: a failed outbound call ends its request: no second call is ever
\* issued for a request, the step of the failure makes no putCache call and
\* leaves the cache as it was, and a node-api request is answered once, with
\* status 500.
C11_FailureIsTerminal ==
  [][\A r \in Reqs :
       /\ Len(req'[r].calls) <= 1
       /\ FailsNow(r) =>
            /\ req'[r].calls = req[r].calls
            /\ Len(req'[r].calls) = 1
            /\ req'[r].writes = <<>>
            /\ workCache' = workCache
            /\ (req[r].route = "node-api" =>
                  /\ Len(req'[r].resp) = 1
                  /\ req'[r].resp[1].status = 500)]_vars

C11_Witness ==
  \E r, s \in Reqs :
    /\ req[r].route = "node-api" /\ req[r].pc = "done"
    /\ req[r].calls # <<>> /\ ~req[r].answer.ok
    /\ req[r].resp[1].status = 500 /\ req[r].resp[1].body = [string |-> UpstreamErrorText]
    /\ req[s].route = "recommended" /\ req[s].pc = "rejected"
    /\ req[s].calls = <<"directory">>

\* C12: the cache holds at most one entry per key: after two requests for
\* one hash have both missed and both written back, one entry for the hash.
C12_OneEntryPerKey ==
  \A i, j \in 1 .. Len(workCache) :
    workCache[i].hash = workCache[j].hash => i = j

\* The entry written last under a hash.
NewestIndex(cache, hash) ==
  CHOOSE i \in IndicesOf(cache, hash) : \A j \in IndicesOf(cache, hash) : j <= i

\* C13: a work_generate request for a hash is answered with the value of the
\* most recent write under that hash: W2 when W1 and then W2 were written.
C13_ReadSeesLatestWrite ==
  [][\A r \in Reqs :
       (/\ Arrives(r)
        /\ req'[r].action = "work_generate"
        /\ ~CarriesOverride(req'[r])
        /\ req'[r].hash # Absent
        /\ IndicesOf(workCache, req'[r].hash) # {}) =>
         /\ Len(req'[r].resp) = 1
         /\ req'[r].resp[1].body =
              [work |-> workCache[NewestIndex(workCache, req'[r].hash)].work]]_vars


\* Request r looked its hash up in the cache and was not answered from it.
MissedWorkCache(r) ==
  /\ req[r].reads = <<req[r].hash>>
  /\ (req[r].resp = <<>> \/ req[r].resp[1].line # 84)

\* C14: with the delegate enabled, a work_generate request without override
\* that missed the cache has made one call, to the delegate, and none to a
\* node, whether the delegate has answered, failed or not yet returned; with
\* the delegate disabled no request has called it.
C14_DelegateOnly ==
  \A r \in Reqs :
    /\ ~useDPoW => \A i \in 1 .. Len(req[r].calls) : req[r].calls[i] # "dpow"
    /\ (/\ useDPoW
        /\ req[r].route = "node-api"
        /\ req[r].action = "work_generate"
        /\ ~CarriesOverride(req[r])
        /\ MissedWorkCache(r)) => req[r].calls = <<"dpow">>

C14_Witness ==
  \E r, s \in Reqs :
    /\ useDPoW
    /\ req[r].action = "work_generate" /\ MissedWorkCache(r)
    /\ req[r].pc = "done" /\ ~req[r].answer.ok
    /\ req[r].calls = <<"dpow">> /\ req[r].resp[1].line = 122
    /\ req[s].action = "work_generate" /\ MissedWorkCache(s)
    /\ req[s].pc = "done" /\ req[s].answer.ok
    /\ req[s].calls = <<"dpow">>

\* The target the routing rules give request q.
ExpectedTarget(q) ==
  IF CarriesOverride(q) THEN "override"
  ELSE IF q.action \in {"work_generate", "representatives_online"} THEN "work"
  ELSE "primary"

\* C15: a request that was sent to a node was sent once, to the override URL
\* if it carries an override target, else to the work node if its action is
\* work_generate or representatives_online, else to the primary node.
C15_UpstreamTarget ==
  \A r \in Reqs :
    (/\ req[r].route = "node-api"
     /\ req[r].calls # <<>>
     /\ req[r].calls # <<"dpow">>) => req[r].calls = <<ExpectedTarget(req[r])>>

C15_Witness ==
  \E r, s \in Reqs :
    /\ req[r].action = "work_generate" /\ CarriesOverride(req[r])
    /\ req[r].calls = <<"override">> /\ req[r].pc = "done"
    /\ req[s].action = "representatives_online" /\ ~CarriesOverride(req[s])
    /\ req[s].calls = <<"work">> /\ req[s].pc = "done"


\* Request r calls putCache with a TTL in this step: the representatives_online
\* write-back of line 133 or the recommended-representatives write of line 188.
TtlPutNow(r) ==
  /\ req[r].writes = <<>>
  /\ req'[r].writes # <<>>
  /\ req'[r].representativeRequest \/ req'[r].route = "recommended"

\* C16: a put with a TTL leaves the in-memory cache as it was, and a read of
\* the key it was called with misses afterwards.
C16_TtlPutStoresNothing ==
  [][\A r \in Reqs :
       TtlPutNow(r) =>
         /\ workCache' = workCache
         /\ getCache(workCache', req'[r].writes[1]) = Null]_vars

\* The first half of C16 alone: the cache is unchanged by a put with a TTL.
TtlPutLeavesCache ==
  [][\A r \in Reqs : TtlPutNow(r) => workCache' = workCache]_vars


C17_WorkEntriesStay ==
  [][/\ Len(workCache') >= Len(workCache)
     /\ \A i \in 1 .. Len(workCache) : workCache'[i] = workCache[i]]_vars


\* The serialized answers that lines 133 and 188 store.
RepresentativesTexts == {JSONstringify(b) : b \in {p \in ProxyBodies : p.representatives}}
RecommendedTexts == {JSONstringifyList(l) : l \in DirectoryLists}

\* C18: work entries stay apart from the two well-known keys: no work_generate
\* request writes under one of them, the value read under
\* 'online-representatives' is absent or a serialized representatives_online
\* answer, and the value read under 'recommended-reps' is absent or a
\* serialized directory list.
C18_WellKnownKeysApart ==
  /\ \A r \in Reqs :
       req[r].action = "work_generate" =>
         \A i \in 1 .. Len(req[r].writes) :
           req[r].writes[i] \notin {repCacheKey, recommendedKey}
  /\ getCache(workCache, repCacheKey) \in {Null} \cup RepresentativesTexts
  /\ getCache(workCache, recommendedKey) \in {Null} \cup RecommendedTexts

\* C19: a POST /api/node-api request has at most one outbound call and at
\* most one response, and once its handler and the callbacks of its call have
\* run it has exactly one response.
C19_AnsweredOnce ==
  \A r \in Reqs :
    req[r].route = "node-api" =>
      /\ Len(req[r].calls) <= 1
      /\ Len(req[r].resp) <= 1
      /\ (req[r].pc \notin {"upstream", "dpow"} => Len(req[r].resp) = 1)

====
